---- MODULE Spec2Model ----
(***************************************************************************)
(* Booking latency pipeline: final.py (duration parser, join, sum, breach  *)
(* classification, rendering) and the statistics dashboard.py computes on  *)
(* the report.                                                             *)
(*                                                                         *)
(* Text is a sequence of one-character strings, so that the regular        *)
(* expressions of the parser are matched character by character.           *)
(* A float number of seconds is the record [w |-> whole seconds,           *)
(* u |-> fraction in units of 10^-FracDigits]: decimal arithmetic stands   *)
(* for the binary floating point of the program (its rounding error, of    *)
(* the order of 1e-11 s on these magnitudes, is not modelled).             *)
(***************************************************************************)
EXTENDS Integers, Sequences, FiniteSets, TLC

VARIABLES
    lat_str,      \* parser harness: the argument of parse_latency_string (with its provenance)
    ret,          \* parser harness: the value returned, "pending" before the call
    stdout,       \* the [DEBUG] lines parse_latency_string has printed
    pc,           \* position of the batch job / dashboard script
    ab_has_sec,   \* the A->B CSV carries the column latency_in_seconds
    df_ab,        \* rows of ab_latency.csv
    df_bc,        \* rows of bc_latency.csv
    df_combined,  \* the merged frame of main(), columns added step by step
    xlsx,         \* final_latency.xlsx as written by main()
    dash,         \* the dashboard's frame and summary numbers
    seconds_in,      \* formatter harness: the argument of format_seconds_as_string
    rendered,        \* formatter harness: the string returned
    ret_again,       \* round trip: parse_latency_string of the rendered string
    rendered_again,  \* round trip: format_seconds_as_string of ret_again
    earlier       \* the frame that the run of main() before this one classified

round_trip == <<seconds_in, rendered, ret_again, rendered_again>>

vars == <<lat_str, ret, stdout, pc, ab_has_sec, df_ab, df_bc, df_combined, xlsx, dash,
          round_trip, earlier>>

-----------------------------------------------------------------------------
(* Bounds *)

FracDigits == 6     \* decimal digits kept after the point of a float
MaxDays == 2        \* day counts of generated duration strings are 0..MaxDays
MaxRows == 4        \* bookings per batch

-----------------------------------------------------------------------------
(* Values *)

\* every Python value of the model has the same shape, so that any two compare
NoneVal == [k |-> "None", w |-> 0, u |-> 0]
NaN == [k |-> "NaN", w |-> 0, u |-> 0]
ValueError == [k |-> "ValueError", w |-> 0, u |-> 0]

Num(w_, u_) == [k |-> "num", w |-> w_, u |-> u_]
IsNum(x) == x.k = "num"

RECURSIVE Pow10(_)
Pow10(n) == IF n = 0 THEN 1 ELSE 10 * Pow10(n - 1)

Scale == Pow10(FracDigits)

\* a literal with six decimals, e.g. 12.565 is Flt(12, 565000)
Flt(w_, micro) == Num(w_, micro * Pow10(FracDigits - 6))

FInt(n) == Num(n, 0)

\* pd.isnull / pd.isna
IsNull(x) == x.k \in {"None", "NaN"}

\* float + float
FAdd(a, b) ==
    LET us == a.u + b.u
    IN  Num(a.w + b.w + (us \div Scale), us % Scale)

\* a <= b on floats
FLe(a, b) == a.w < b.w \/ (a.w = b.w /\ a.u <= b.u)
FLt(a, b) == a.w < b.w \/ (a.w = b.w /\ a.u < b.u)

-----------------------------------------------------------------------------
(* Characters and the regular-expression primitives of module re *)

Digit == <<"0", "1", "2", "3", "4", "5", "6", "7", "8", "9">>

IsDigit(c) == \E d \in 1..10 : Digit[d] = c

\* \s
IsSpace(c) == c \in {" ", "\t", "\n"}

DigitVal(c) == (CHOOSE d \in 1..10 : Digit[d] = c) - 1

\* the position after the longest run of digits that starts at i
RECURSIVE DigitsEnd(_, _)
DigitsEnd(s, i) ==
    IF i <= Len(s) /\ IsDigit(s[i]) THEN DigitsEnd(s, i + 1) ELSE i

RECURSIVE SpaceEnd(_, _)
SpaceEnd(s, i) ==
    IF i <= Len(s) /\ IsSpace(s[i]) THEN SpaceEnd(s, i + 1) ELSE i

(* Each matcher takes a position (0: the match has already failed) and     *)
(* returns the position after what it matched, or 0.  In the three         *)
(* patterns every \d+ and \s+ is followed by a character outside its       *)
(* class, so the longest run is the only way to match.                     *)

\* \d+
ReDigits(s, i) ==
    IF i = 0 THEN 0
    ELSE LET e == DigitsEnd(s, i) IN IF e > i THEN e ELSE 0

\* \s+
ReSpaces(s, i) ==
    IF i = 0 THEN 0
    ELSE LET e == SpaceEnd(s, i) IN IF e > i THEN e ELSE 0

\* a literal word
RECURSIVE ReLit(_, _, _)
ReLit(s, i, w) ==
    IF i = 0 THEN 0
    ELSE IF w = <<>> THEN i
    ELSE IF i <= Len(s) /\ s[i] = Head(w) THEN ReLit(s, i + 1, Tail(w))
    ELSE 0

\* c?
ReOpt(s, i, c) ==
    IF i = 0 THEN 0
    ELSE IF i <= Len(s) /\ s[i] = c THEN i + 1 ELSE i

\* \d+(\.\d+)?
ReSeconds(s, i) ==
    LET e == ReDigits(s, i)
        f == ReDigits(s, ReLit(s, e, <<".">>))
    IN  IF e = 0 THEN 0 ELSE IF f > 0 THEN f ELSE e

\* a pattern that lacks its final $
ReEnd_unanchored(s, i) == i > 0

\* $ : at the end of the string, or just before a newline that ends it
ReEnd(s, i) ==
    /\ i > 0
    /\ \/ i = Len(s) + 1
       \/ i = Len(s) /\ s[i] = "\n"

\* the text of a group that spans positions a .. b-1
Group(s, a, b) == SubSeq(s, a, b - 1)

-----------------------------------------------------------------------------
(* Python values: a CSV cell is a str or, when the cell is empty, the float NaN *)

PyStr(s) == [type |-> "str", v |-> s]
PyNaN == [type |-> "float", v |-> <<>>]

\* isinstance(x, str)
IsInstanceStr(x) == x.type = "str"

RECURSIVE DigitsValue(_)
DigitsValue(txt) ==
    IF txt = <<>> THEN 0
    ELSE DigitsValue(SubSeq(txt, 1, Len(txt) - 1)) * 10 + DigitVal(txt[Len(txt)])

\* int(...) in the place of float(...): the fraction is dropped
PyFloat_int(txt) ==
    LET e == ReDigits(txt, 1)
    IN  IF e > 0 THEN FInt(DigitsValue(Group(txt, 1, e))) ELSE ValueError

\* float(txt) on the decimal literals the groups can hold: digits, or
\* digits "." digits (digits past FracDigits are below the resolution of the
\* model); any other text raises ValueError
PyFloat(txt) ==
    LET e == ReDigits(txt, 1)
        f == ReDigits(txt, ReLit(txt, e, <<".">>))
        frac == SubSeq(txt, e + 1, IF f - 1 < e + FracDigits THEN f - 1 ELSE e + FracDigits)
    IN  IF e = Len(txt) + 1 /\ e > 0
            THEN FInt(DigitsValue(txt))
        ELSE IF f = Len(txt) + 1 /\ f > 0
            THEN Num(DigitsValue(Group(txt, 1, e)),
                     DigitsValue(frac) * Pow10(FracDigits - Len(frac)))
        ELSE ValueError

\* float * integer
FScale(x, n) ==
    LET us == x.u * n
    IN  Num(x.w * n + (us \div Scale), us % Scale)

Raised(x) == x.k = "ValueError"

-----------------------------------------------------------------------------
(* final.py: parse_latency_string *)

\* a match object, or None
NoMatch == [ok |-> FALSE]
Match(groups) == [ok |-> TRUE, group |-> groups]

W_day == <<"d", "a", "y">>
W_hour == <<"h", "o", "u", "r">>
W_min == <<"m", "i", "n">>
W_secs == <<"s", "e", "c", "s">>
W_years == <<"y", "e", "a", "r">>
W_mons == <<"m", "o", "n">>

\* ^(?P<hours>\d+):(?P<minutes>\d+):(?P<seconds>\d+(\.\d+)?)$
pattern_c(s) ==
    LET h == ReDigits(s, 1)
        m0 == ReLit(s, h, <<":">>)
        m == ReDigits(s, m0)
        s0 == ReLit(s, m, <<":">>)
        e == ReSeconds(s, s0)
    IN  IF ReEnd(s, e)
        THEN Match([hours |-> Group(s, 1, h), minutes |-> Group(s, m0, m),
                    seconds |-> Group(s, s0, e)])
        ELSE NoMatch

\* ^(?P<days>\d+)\s+day[s]?,\s+(?P<hours>\d+):(?P<minutes>\d+):(?P<seconds>\d+(\.\d+)?)$
pattern_b(s) ==
    LET d == ReDigits(s, 1)
        w == ReLit(s, ReOpt(s, ReLit(s, ReSpaces(s, d), W_day), "s"), <<",">>)
        h0 == ReSpaces(s, w)
        h == ReDigits(s, h0)
        m0 == ReLit(s, h, <<":">>)
        m == ReDigits(s, m0)
        s0 == ReLit(s, m, <<":">>)
        e == ReSeconds(s, s0)
    IN  IF ReEnd(s, e)
        THEN Match([days |-> Group(s, 1, d), hours |-> Group(s, h0, h),
                    minutes |-> Group(s, m0, m), seconds |-> Group(s, s0, e)])
        ELSE NoMatch

\* ^(?P<days>\d+)\s+days?\s+(?P<hours>\d+)\s+hours?\s+(?P<minutes>\d+)\s+mins?\s+(?P<secs>\d+(\.\d+)?)\s+secs$
pattern_a(s) ==
    LET d == ReDigits(s, 1)
        h0 == ReSpaces(s, ReOpt(s, ReLit(s, ReSpaces(s, d), W_day), "s"))
        h == ReDigits(s, h0)
        m0 == ReSpaces(s, ReOpt(s, ReLit(s, ReSpaces(s, h), W_hour), "s"))
        m == ReDigits(s, m0)
        s0 == ReSpaces(s, ReOpt(s, ReLit(s, ReSpaces(s, m), W_min), "s"))
        e == ReSeconds(s, s0)
        z == ReLit(s, ReSpaces(s, e), W_secs)
    IN  IF ReEnd(s, z)
        THEN Match([days |-> Group(s, 1, d), hours |-> Group(s, h0, h),
                    minutes |-> Group(s, m0, m), secs |-> Group(s, s0, e)])
        ELSE NoMatch

\* days * 86400 + hours * 3600 + minutes * 60 + seconds, each a float(...)
TotalSec(days, hours, minutes, seconds) ==
    IF Raised(days) \/ Raised(hours) \/ Raised(minutes) \/ Raised(seconds)
    THEN ValueError
    ELSE FAdd(FAdd(FAdd(FScale(days, 86400), FScale(hours, 3600)),
                   FScale(minutes, 60)), seconds)

parse_latency_string(lat_str_) ==
    IF ~IsInstanceStr(lat_str_) THEN NoneVal
    ELSE LET s == lat_str_.v
             match_c == pattern_c(s)
             match_b == pattern_b(s)
             match_a == pattern_a(s)
         IN  IF match_c.ok
                 THEN TotalSec(FInt(0), PyFloat(match_c.group.hours),
                               PyFloat(match_c.group.minutes),
                               PyFloat(match_c.group.seconds))
             ELSE IF match_b.ok
                 THEN TotalSec(PyFloat(match_b.group.days), PyFloat(match_b.group.hours),
                               PyFloat(match_b.group.minutes),
                               PyFloat(match_b.group.seconds))
             ELSE IF match_a.ok
                 THEN TotalSec(PyFloat(match_a.group.days), PyFloat(match_a.group.hours),
                               PyFloat(match_a.group.minutes),
                               PyFloat(match_a.group.secs))
             ELSE NoneVal

\* the line printed when no pattern matches (final.py:58)
ParseDebug(lat_str_) ==
    IF IsInstanceStr(lat_str_) /\ parse_latency_string(lat_str_).k = "None"
    THEN <<lat_str_.v>> ELSE <<>>

-----------------------------------------------------------------------------
(* Text of numbers *)

\* str(n) of a non-negative integer
RECURSIVE NumText(_)
NumText(n) ==
    IF n < 10 THEN <<Digit[n + 1]>>
    ELSE NumText(n \div 10) \o <<Digit[(n % 10) + 1]>>

\* f"{n:02d}"
Pad2(n) == IF n < 10 THEN <<"0">> \o NumText(n) ELSE NumText(n)

-----------------------------------------------------------------------------
(* Duration strings given to the parser.  Each input records how it was    *)
(* built: its encoding (shape) and the numbers written into it.            *)

HourVals == {0, 2, 22}
MinuteVals == {0, 19, 59}
SecondVals == {0, 1, 59}
DayVals == 0..MaxDays
YearVals == {0, 1}
MonVals == {0, 2}

\* the fractional part of the seconds: its text and its value
FracVals ==
    { [txt |-> <<>>, u |-> Flt(0, 0).u],
      [txt |-> <<".", "5">>, u |-> Flt(0, 500000).u],
      [txt |-> <<".", "5", "6", "5">>, u |-> Flt(0, 565000).u],
      [txt |-> <<".", "1", "1", "3", "7", "1", "2">>, u |-> Flt(0, 113712).u] }

Plural(word, p) == IF p THEN word \o <<"s">> ELSE word

\* H:MM:SS(.f)
ClockText(H, M, S, f) ==
    NumText(H) \o <<":">> \o Pad2(M) \o <<":">> \o Pad2(S) \o f.txt

\* D day(s), H:MM:SS(.f)
DayClockText(D, p, H, M, S, f) ==
    NumText(D) \o <<" ">> \o Plural(W_day, p) \o <<",", " ">> \o ClockText(H, M, S, f)

\* D day(s) H hour(s) M min(s) S(.f) secs
VerboseText(D, p, H, M, S, f) ==
    NumText(D) \o <<" ">> \o Plural(W_day, p) \o <<" ">>
    \o NumText(H) \o <<" ">> \o Plural(W_hour, p) \o <<" ">>
    \o NumText(M) \o <<" ">> \o Plural(W_min, p) \o <<" ">>
    \o NumText(S) \o f.txt \o <<" ">> \o W_secs

\* Y years N mons, then the verbose form
PrefixedText(Y, N, D, p, H, M, S, f) ==
    NumText(Y) \o <<" ">> \o Plural(W_years, p) \o <<" ">>
    \o NumText(N) \o <<" ">> \o Plural(W_mons, p) \o <<" ">>
    \o VerboseText(D, p, H, M, S, f)

Input(cell_, shape_, Y_, N_, D_, H_, M_, S_, F_) ==
    [cell |-> cell_, shape |-> shape_, Y |-> Y_, N |-> N_, D |-> D_,
     H |-> H_, M |-> M_, S |-> S_, F |-> F_]

ClockInputs ==
    { Input(PyStr(ClockText(H, M, S, f)), "clock", 0, 0, 0, H, M, S, f.u) :
        H \in HourVals, M \in MinuteVals, S \in SecondVals, f \in FracVals }

DayClockInputs ==
    { Input(PyStr(DayClockText(D, p, H, M, S, f)), "dayclock", 0, 0, D, H, M, S, f.u) :
        D \in DayVals, p \in BOOLEAN, H \in HourVals, M \in MinuteVals,
        S \in SecondVals, f \in FracVals }

VerboseInputs ==
    { Input(PyStr(VerboseText(D, p, H, M, S, f)), "verbose", 0, 0, D, H, M, S, f.u) :
        D \in DayVals, p \in BOOLEAN, H \in HourVals, M \in MinuteVals,
        S \in SecondVals, f \in FracVals }

PrefixedInputs ==
    { Input(PyStr(PrefixedText(Y, N, D, TRUE, H, M, S, f)), "prefixed", Y, N, D, H, M, S, f.u) :
        Y \in YearVals, N \in MonVals, D \in DayVals, H \in HourVals,
        M \in {0, 19}, S \in {0, 12}, f \in FracVals }

\* texts that are in none of the three encodings
F0 == [txt |-> <<>>, u |-> 0]
F5 == [txt |-> <<".", "5">>, u |-> Flt(0, 500000).u]

MalformedTexts ==
    LET clock == ClockText(2, 19, 1, F5)
        dayclock == DayClockText(1, FALSE, 2, 19, 1, F0)
        verbose == VerboseText(1, TRUE, 2, 19, 1, F5)
    IN  { <<>>,
          <<"N", "/", "A">>,
          NumText(2) \o <<":">> \o Pad2(19),                       \* 2:19
          clock \o <<"x">>,                                        \* trailing text
          <<"x">> \o clock,                                        \* leading text
          <<"-">> \o clock,                                        \* a sign
          <<" ">> \o clock,
          clock \o <<" ">>,
          ClockText(2, 19, 1, F0) \o <<".">>,                      \* 2:19:01.
          ClockText(2, 19, 1, F0) \o <<":">> \o Pad2(5),           \* four fields
          NumText(2) \o <<".", "5", ":">> \o Pad2(19) \o <<":">> \o Pad2(1),
          NumText(2) \o <<":">> \o <<":">> \o Pad2(1),             \* 2::01
          NumText(1) \o <<" ">> \o W_day \o <<" ">> \o ClockText(2, 19, 1, F0),    \* no comma
          NumText(1) \o <<" ">> \o W_day \o <<",">> \o ClockText(2, 19, 1, F0),    \* no blank
          NumText(1) \o <<" ", "w", "e", "e", "k", ",", " ">> \o ClockText(2, 19, 1, F0),
          W_day \o <<",", " ">> \o ClockText(2, 19, 1, F0),        \* no day count
          dayclock \o <<" ">> \o W_secs,
          NumText(0) \o <<" ">> \o W_day \o <<"s", " ">> \o ClockText(2, 19, 1, F0), \* 0 days 2:19:01
          SubSeq(verbose, 1, Len(verbose) - 1),                    \* ... sec
          SubSeq(verbose, 1, Len(verbose) - 5),                    \* no unit of seconds
          SubSeq(verbose, 8, Len(verbose)),                        \* no days field
          <<"x">> \o verbose,
          verbose \o <<".">>,
          NumText(1) \o W_day \o <<"s">> \o NumText(2) \o W_hour \o <<"s">>
              \o NumText(19) \o W_min \o <<"s">> \o NumText(1) \o W_secs }

MalformedInputs ==
    { Input(PyStr(s), "malformed", 0, 0, 0, 0, 0, 0, 0) : s \in MalformedTexts }

\* cells that are not strings: an empty cell (NaN) and a number
NonStringInputs ==
    { Input(PyNaN, "nonstring", 0, 0, 0, 0, 0, 0, 0),
      Input([type |-> "int", v |-> <<>>], "nonstring", 0, 0, 0, 0, 0, 0, 0) }

ParseInputs ==
    ClockInputs \cup DayClockInputs \cup VerboseInputs \cup PrefixedInputs
    \cup MalformedInputs \cup NonStringInputs

-----------------------------------------------------------------------------
(* The parser on its own: one call of parse_latency_string *)

Pending == [k |-> "pending", w |-> 0, u |-> 0]
NoInput == Input(PyNaN, "none", 0, 0, 0, 0, 0, 0, 0)

\* no string returned yet
Unset == [type |-> "unset", v |-> <<>>]

RoundTripIdle ==
    /\ seconds_in = Pending
    /\ rendered = Unset
    /\ ret_again = Pending
    /\ rendered_again = Unset

BatchIdle ==
    /\ ab_has_sec = FALSE
    /\ df_ab = <<>>
    /\ df_bc = <<>>
    /\ df_combined = <<>>
    /\ xlsx = <<>>
    /\ dash = <<>>
    /\ earlier = <<>>

InitParse ==
    /\ lat_str \in ParseInputs
    /\ ret = Pending
    /\ stdout = <<>>
    /\ pc = "call"
    /\ RoundTripIdle
    /\ BatchIdle

CallParse ==
    /\ pc = "call"
    /\ ret' = parse_latency_string(lat_str.cell)
    /\ stdout' = stdout \o ParseDebug(lat_str.cell)
    /\ pc' = "returned"
    /\ UNCHANGED <<round_trip, earlier, lat_str, ab_has_sec, df_ab, df_bc, df_combined, xlsx, dash>>

-----------------------------------------------------------------------------
(* final.py: configuration *)

threshold_sec == 1800

-----------------------------------------------------------------------------
(* The two input files.  A batch is a list of at most MaxRows bookings,    *)
(* each taken from the catalogue below; booking number i has the booking   *)
(* code i, unless its case names the code.  Only the columns that main()   *)
(* computes with are kept (the timestamps are carried through untouched).  *)

Absent == [present |-> FALSE]
ABRow(str_, sec_) == [present |-> TRUE, str |-> PyStr(str_), sec |-> sec_]
BCRow(cell_) == [present |-> TRUE, cell |-> cell_]

Case(code_, ab_, bc_) == [code |-> code_, ab |-> ab_, bc |-> bc_]

F113712 == [txt |-> <<".", "1", "1", "3", "7", "1", "2">>, u |-> Flt(0, 113712).u]
F304215 == [txt |-> <<".", "3", "0", "4", "2", "1", "5">>, u |-> Flt(0, 304215).u]
F565 == [txt |-> <<".", "5", "6", "5">>, u |-> Flt(0, 565000).u]

OneSecond == ABRow(ClockText(0, 0, 1, F0), FInt(1))

Catalogue ==
    << \* a booking that was never pushed, one that was never received
       Case(0, OneSecond, Absent),
       Case(0, Absent, BCRow(PyStr(ClockText(0, 59, 59, F0)))),
       \* a second A->B row for booking code 1
       Case(1, OneSecond, Absent),
       \* totals of 1800, 1801, 3600, 5400 and 7200 seconds
       Case(0, OneSecond, BCRow(PyStr(ClockText(0, 29, 59, F0)))),
       Case(0, OneSecond, BCRow(PyStr(ClockText(0, 30, 0, F0)))),
       Case(0, OneSecond, BCRow(PyStr(ClockText(0, 59, 59, F0)))),
       Case(0, OneSecond, BCRow(PyStr(ClockText(1, 29, 59, F0)))),
       Case(0, OneSecond, BCRow(PyStr(ClockText(1, 59, 59, F0)))),
       \* 0:06:04.304215 and 1 day, 2:19:01.113712
       Case(0, ABRow(ClockText(0, 6, 4, F304215), Flt(364, 304215)),
               BCRow(PyStr(DayClockText(1, FALSE, 2, 19, 1, F113712)))),
       \* B->C durations the parser rejects: the interval text with years and
       \* months, and an empty cell
       Case(0, OneSecond, BCRow(PyStr(PrefixedText(0, 0, 0, TRUE, 0, 0, 12, F565)))),
       Case(0, OneSecond, BCRow(PyNaN)),
       \* an A->B row whose number of seconds is missing
       Case(0, ABRow(ClockText(0, 0, 1, F0), NaN),
               BCRow(PyStr(ClockText(0, 59, 59, F0)))),
       \* a verbose B->C duration with a fraction
       Case(0, OneSecond, BCRow(PyStr(VerboseText(0, TRUE, 0, 0, 12, F565)))),
       \* an A->B duration written as interval text, with its number of seconds
       Case(0, ABRow(PrefixedText(0, 0, 0, TRUE, 0, 6, 4, F304215), Flt(364, 304215)),
               BCRow(PyStr(ClockText(0, 59, 59, F0)))) >>

\* the lists of cases, in catalogue order
Batches ==
    UNION { { b \in [1..n -> 1..Len(Catalogue)] :
                \A i \in 1..(n - 1) : b[i] <= b[i + 1] } : n \in 0..MaxRows }

CodeOf(b, i) == IF Catalogue[b[i]].code = 0 THEN i ELSE Catalogue[b[i]].code

MapSeq(seq, f(_)) == [i \in 1..Len(seq) |-> f(seq[i])]

\* the elements f(i) for the i of idx (a sequence of indices) that pass Test
SelectSeq2(idx, Test(_), f(_)) == MapSeq(SelectSeq(idx, Test), f)

Upto(n) == [i \in 1..n |-> i]
Downfrom(n) == [i \in 1..n |-> n + 1 - i]

\* ab_latency.csv after the renaming of its columns (final.py:120-126)
ReadAB(b, has_sec) ==
    LET Has(i) == Catalogue[b[i]].ab.present
        Row(i) == [booking_code |-> CodeOf(b, i),
                   latency_a_to_b_str |-> Catalogue[b[i]].ab.str,
                   latency_a_to_b_sec |-> IF has_sec THEN Catalogue[b[i]].ab.sec
                                          ELSE NoneVal]
    IN  SelectSeq2(Upto(Len(b)), Has, Row)

\* bc_latency.csv after the renaming of its columns (final.py:128-133);
\* its rows come in the opposite order
ReadBC(b) ==
    LET Has(i) == Catalogue[b[i]].bc.present
        Row(i) == [booking_code |-> CodeOf(b, i),
                   latency_b_to_c_str |-> Catalogue[b[i]].bc.cell]
    IN  SelectSeq2(Downfrom(Len(b)), Has, Row)

-----------------------------------------------------------------------------
(* final.py: main, steps 4 to 6 *)

RECURSIVE Concat(_)
Concat(ss) == IF ss = <<>> THEN <<>> ELSE Head(ss) \o Concat(Tail(ss))

FlatMap(seq, f(_)) == Concat(MapSeq(seq, f))

\* how='left': a left row without a partner is kept, its right columns NaN
merge_left(left, right) ==
    LET Pairs(l) ==
            LET Same(j) == right[j].booking_code = l.booking_code
                Join(cell) == [booking_code |-> l.booking_code,
                               latency_a_to_b_str |-> l.latency_a_to_b_str,
                               latency_a_to_b_sec |-> l.latency_a_to_b_sec,
                               latency_b_to_c_str |-> cell]
                found == SelectSeq2(Upto(Len(right)), Same,
                                    LAMBDA j : Join(right[j].latency_b_to_c_str))
            IN  IF found = <<>> THEN <<Join(PyNaN)>> ELSE found
    IN  FlatMap(left, Pairs)

\* pd.merge(df_ab, df_bc, on='booking_code', how='inner'): every pair of a left
\* and a right row with the same key, in the order of the left rows
merge_inner(left, right) ==
    LET Pairs(l) ==
            LET Same(j) == right[j].booking_code = l.booking_code
                Join(j) == [booking_code |-> l.booking_code,
                            latency_a_to_b_str |-> l.latency_a_to_b_str,
                            latency_a_to_b_sec |-> l.latency_a_to_b_sec,
                            latency_b_to_c_str |-> right[j].latency_b_to_c_str]
            IN  SelectSeq2(Upto(Len(right)), Same, Join)
    IN  FlatMap(left, Pairs)

\* Series.apply: a column of floats holds NaN where the function returned
\* None; a column without any float keeps the None objects
apply_column(results) ==
    IF \E i \in 1..Len(results) : IsNum(results[i])
    THEN [i \in 1..Len(results) |-> IF IsNum(results[i]) THEN results[i] ELSE NaN]
    ELSE results

\* Series.add(other, fill_value=0): a null side counts as zero
series_add_fill(a, b) ==
    FAdd(IF IsNum(a) THEN a ELSE FInt(0), IF IsNum(b) THEN b ELSE FInt(0))

\* element of Series + Series: NaN where either side is null
series_add(a, b) == IF IsNum(a) /\ IsNum(b) THEN FAdd(a, b) ELSE NaN

\* the column total_latency_sec (final.py:152-157)
total_latency_sec(has_sec, row) ==
    IF ~has_sec THEN NoneVal
    ELSE series_add(row.latency_a_to_b_sec, row.latency_b_to_c_sec)

-----------------------------------------------------------------------------
(* final.py: main, the breach classification *)

PyNone == "<None>"
NaNCell == "<NaN>"

\* a rank is the fraction num / den; NaN where no rank was assigned
NoRank == [num |-> 0, den |-> 0]

RECURSIVE Insert(_, _)
Insert(sorted, x) ==
    IF sorted = <<>> THEN <<x>>
    ELSE IF FLe(x, Head(sorted)) THEN <<x>> \o sorted
    ELSE <<Head(sorted)>> \o Insert(Tail(sorted), x)

RECURSIVE Sort(_)
Sort(vals) == IF vals = <<>> THEN <<>> ELSE Insert(Sort(Tail(vals)), Head(vals))

RECURSIVE SumSet(_)
SumSet(S) == IF S = {} THEN 0 ELSE LET x == CHOOSE y \in S : TRUE IN x + SumSet(S \ {x})

\* rank(pct=True, method='max'): tied values take their highest position
rank_pct_max(vals, i) ==
    [num |-> Cardinality({ q \in 1..Len(vals) : FLe(vals[q], vals[i]) }),
     den |-> Len(vals)]

\* rank(pct=True, ascending=False): the largest value takes position 1
rank_pct_desc(vals, i) ==
    LET sorted == Sort(vals)
        tied == { q \in 1..Len(sorted) : sorted[q] = vals[i] }
    IN  [num |-> Cardinality(tied) * (Len(vals) + 1) - SumSet(tied),
         den |-> Cardinality(tied) * Len(vals)]

\* Series.rank(pct=True) at element i: the positions that the values equal to
\* vals[i] take in sorted order are averaged (method='average', the default)
\* and the average is divided by the number of values
rank_pct(vals, i) ==
    LET sorted == Sort(vals)
        tied == { q \in 1..Len(sorted) : sorted[q] = vals[i] }
    IN  [num |-> SumSet(tied), den |-> Cardinality(tied) * Len(vals)]

\* bins=[0, 0.5, 0.6, 0.7, 0.8, 0.9, 1.0], in tenths
bins == <<0, 5, 6, 7, 8, 9, 10>>

labels ==
    << "<=50th percentile", "50-60th percentile", "60-70th percentile",
       "70-80th percentile", "80-90th percentile", "90-100th percentile" >>

\* edge (tenths) < r, edge = r
EdgeBelow(e, r) == e * r.den < 10 * r.num
EdgeAt(e, r) == e * r.den = 10 * r.num

\* bins.searchsorted(r, side='left'): the number of edges below r
searchsorted(r) == Cardinality({ b \in 1..Len(bins) : EdgeBelow(bins[b], r) })

\* pd.cut(..., right=False): the bins are closed on the left
cut_left_closed(r) ==
    LET ids == Cardinality({ b \in 1..Len(bins) :
                               EdgeBelow(bins[b], r) \/ EdgeAt(bins[b], r) })
    IN  IF ids = 0 \/ ids = Len(bins) THEN NaNCell ELSE labels[ids]

\* pd.cut(r, bins, labels, include_lowest=True), with right=True by default
cut(r) ==
    LET ids == IF EdgeAt(bins[1], r) THEN 1 ELSE searchsorted(r)
    IN  IF ids = 0 \/ ids = Len(bins) THEN NaNCell ELSE labels[ids]

\* < in the place of <=
within_mask_strict(row) ==
    IsNum(row.total_latency_sec) /\ FLt(row.total_latency_sec, FInt(threshold_sec))

within_mask(row) ==
    IsNum(row.total_latency_sec) /\ FLe(row.total_latency_sec, FInt(threshold_sec))

\* every row with a total counted as exceeding
exceed_mask_all(row) == IsNum(row.total_latency_sec)

exceed_mask(row) ==
    IsNum(row.total_latency_sec) /\ FLt(FInt(threshold_sec), row.total_latency_sec)

\* every row with a total, in the place of the rows that exceed the threshold
ExceedIdx_all(df) == SelectSeq(Upto(Len(df)), LAMBDA i : IsNum(df[i].total_latency_sec))

\* the rows of df, in order, that exceed the threshold
ExceedIdx(df) == SelectSeq(Upto(Len(df)), LAMBDA i : exceed_mask(df[i]))

\* position of row i within the exceeding subset
PosIn(idx, i) == CHOOSE q \in 1..Len(idx) : idx[q] = i

\* final.py:163-182
classify(df) ==
    LET idx == ExceedIdx(df)
        vals == [q \in 1..Len(idx) |-> df[idx[q]].total_latency_sec]
        Rank(i) == IF exceed_mask(df[i]) THEN rank_pct(vals, PosIn(idx, i)) ELSE NoRank
        Category(i) ==
            IF exceed_mask(df[i]) THEN cut(Rank(i))
            ELSE IF within_mask(df[i]) THEN "Within Threshold"
            ELSE PyNone
    IN  [i \in 1..Len(df) |->
            [breach_category |-> Category(i),
             breach_rank |-> Rank(i),
             breach_percentage |-> Category(i)] @@ df[i]]

-----------------------------------------------------------------------------
(* final.py: format_seconds_as_string *)

\* int(x) in the place of round(x): the fraction is dropped
py_round_trunc(x) == x.w

\* round(x): to the nearest integer, a half to the even one
py_round(x) ==
    IF 2 * x.u > Scale THEN x.w + 1
    ELSE IF 2 * x.u < Scale THEN x.w
    ELSE IF x.w % 2 = 0 THEN x.w ELSE x.w + 1

format_seconds_as_string(total_seconds) ==
    IF IsNull(total_seconds) THEN <<>>
    ELSE LET rounded_sec == py_round(total_seconds)
             days == rounded_sec \div 86400
             hh == (rounded_sec % 86400) \div 3600
             mm == (rounded_sec % 3600) \div 60
             ss == rounded_sec % 60
         IN  NumText(days) \o <<" ">> \o W_day \o <<"s", " ">>
             \o Pad2(hh) \o <<":">> \o Pad2(mm) \o <<":">> \o Pad2(ss)

-----------------------------------------------------------------------------
(* The round trip: the parsed value is rendered, the rendered string is    *)
(* parsed again and that value is rendered again                           *)

\* format_seconds_as_string(parse_latency_string(s))
FormatParsed ==
    /\ pc = "returned"
    /\ seconds_in' = ret
    /\ rendered' = PyStr(format_seconds_as_string(ret))
    /\ pc' = "rendered"
    /\ UNCHANGED <<lat_str, ret, stdout, ret_again, rendered_again,
                   ab_has_sec, df_ab, df_bc, df_combined, xlsx, dash, earlier>>

\* parse_latency_string of the string just rendered
ParseAgain ==
    /\ pc = "rendered"
    /\ ret_again' = parse_latency_string(rendered)
    /\ stdout' = stdout \o ParseDebug(rendered)
    /\ pc' = "parsed again"
    /\ UNCHANGED <<lat_str, ret, seconds_in, rendered, rendered_again,
                   ab_has_sec, df_ab, df_bc, df_combined, xlsx, dash, earlier>>

FormatAgain ==
    /\ pc = "parsed again"
    /\ rendered_again' = PyStr(format_seconds_as_string(ret_again))
    /\ pc' = "rendered again"
    /\ UNCHANGED <<lat_str, ret, stdout, seconds_in, rendered, ret_again,
                   ab_has_sec, df_ab, df_bc, df_combined, xlsx, dash, earlier>>

NextParse == CallParse \/ FormatParsed \/ ParseAgain \/ FormatAgain

SpecParse == InitParse /\ [][NextParse]_vars

-----------------------------------------------------------------------------
(* The formatter on its own: one call of format_seconds_as_string *)

\* whole seconds around the ends of a minute, an hour and a day
WholeVals ==
    {0, 1, 2, 59, 60, 3599, 3600, 86399, 86400, 86401, MaxDays * 86400 + 86399}

\* fractions of a second, in millionths
MicroVals == {0, 1, 499999, 500000, 500001, 999999}

FormatInputs ==
    { Flt(w_, m) : w_ \in WholeVals, m \in MicroVals } \cup {NoneVal, NaN}

InitFormat ==
    /\ seconds_in \in FormatInputs
    /\ rendered = Unset
    /\ ret_again = Pending
    /\ rendered_again = Unset
    /\ pc = "format"
    /\ lat_str = NoInput
    /\ ret = Pending
    /\ stdout = <<>>
    /\ BatchIdle

CallFormat ==
    /\ pc = "format"
    /\ rendered' = PyStr(format_seconds_as_string(seconds_in))
    /\ pc' = "rendered"
    /\ UNCHANGED <<lat_str, ret, stdout, seconds_in, ret_again, rendered_again,
                   ab_has_sec, df_ab, df_bc, df_combined, xlsx, dash, earlier>>

NextFormat == CallFormat

SpecFormat == InitFormat /\ [][NextFormat]_vars

-----------------------------------------------------------------------------
(* dashboard.py *)

\* read_excel: an empty text and an empty cell both come back as NaN
load_cell(txt) == IF txt = <<>> THEN PyNaN ELSE PyStr(txt)
load_label(label) == IF label = PyNone THEN NaNCell ELSE label

RECURSIVE LStrip(_)
LStrip(s) == IF s # <<>> /\ IsSpace(Head(s)) THEN LStrip(Tail(s)) ELSE s

RECURSIVE RStrip(_)
RStrip(s) ==
    IF s # <<>> /\ IsSpace(s[Len(s)]) THEN RStrip(SubSeq(s, 1, Len(s) - 1)) ELSE s

\* str.strip()
Strip(s) == RStrip(LStrip(s))

\* pd.to_timedelta(s), in seconds, on the texts the report holds in
\* total_latency, "D days HH:MM:SS"; on any other text of the model it raises
to_timedelta(s) ==
    LET d == ReDigits(s, 1)
        h0 == ReLit(s, d, <<" ">> \o W_day \o <<"s", " ">>)
        h == ReDigits(s, h0)
        m0 == ReLit(s, h, <<":">>)
        m == ReDigits(s, m0)
        s0 == ReLit(s, m, <<":">>)
        e == ReDigits(s, s0)
    IN  IF e > 0 /\ e = Len(s) + 1
        THEN FInt(DigitsValue(Group(s, 1, d)) * 86400 + DigitsValue(Group(s, h0, h)) * 3600
                  + DigitsValue(Group(s, m0, m)) * 60 + DigitsValue(Group(s, s0, e)))
        ELSE ValueError

\* ^(?P<years>\d+)\s+years?\s+(?P<mons>\d+)\s+mons?\s+(?P<days>\d+)\s+days?\s+
\*  (?P<hours>\d+)\s+hours?\s+(?P<minutes>\d+)\s+mins?\s+(?P<seconds>\d+(\.\d+)?)\s+secs$
pattern_interval(s) ==
    LET y == ReDigits(s, 1)
        n0 == ReSpaces(s, ReOpt(s, ReLit(s, ReSpaces(s, y), W_years), "s"))
        n == ReDigits(s, n0)
        d0 == ReSpaces(s, ReOpt(s, ReLit(s, ReSpaces(s, n), W_mons), "s"))
        d == ReDigits(s, d0)
        h0 == ReSpaces(s, ReOpt(s, ReLit(s, ReSpaces(s, d), W_day), "s"))
        h == ReDigits(s, h0)
        m0 == ReSpaces(s, ReOpt(s, ReLit(s, ReSpaces(s, h), W_hour), "s"))
        m == ReDigits(s, m0)
        s0 == ReSpaces(s, ReOpt(s, ReLit(s, ReSpaces(s, m), W_min), "s"))
        e == ReSeconds(s, s0)
        z == ReLit(s, ReSpaces(s, e), W_secs)
    IN  IF ReEnd(s, z)
        THEN Match([years |-> Group(s, 1, y), mons |-> Group(s, n0, n),
                    days |-> Group(s, d0, d), hours |-> Group(s, h0, h),
                    minutes |-> Group(s, m0, m), seconds |-> Group(s, s0, e)])
        ELSE NoMatch

\* the Timedelta returned, in seconds
parse_timedelta_safe(value) ==
    IF ~IsInstanceStr(value) THEN FInt(0)
    ELSE LET s == Strip(value.v)
             std == to_timedelta(s)
             match == pattern_interval(s)
         IN  IF ~Raised(std) THEN std
             ELSE IF match.ok
                 THEN LET total_days == DigitsValue(match.group.years) * 365
                                        + DigitsValue(match.group.mons) * 30
                                        + DigitsValue(match.group.days)
                      IN  FAdd(FInt(total_days * 86400
                                    + DigitsValue(match.group.hours) * 3600
                                    + DigitsValue(match.group.minutes) * 60),
                               PyFloat(match.group.seconds))
             ELSE FInt(0)

\* '50-60th' in s, for the labels of the model
Contains(s, word) == \E l \in 1..Len(labels) : labels[l] = s /\ l = word

categorize_breach(breach) ==
    IF breach = PyNone \/ breach = NaNCell THEN "Missing Data"
    ELSE IF breach \in {"Within Threshold", "<=50th percentile"} THEN breach
    ELSE IF Contains(breach, 2) THEN "50-60th percentile"
    ELSE IF Contains(breach, 3) THEN "60-70th percentile"
    ELSE IF Contains(breach, 4) THEN "70-80th percentile"
    ELSE IF Contains(breach, 5) THEN "80-90th percentile"
    ELSE IF Contains(breach, 6) THEN "90-100th percentile"
    ELSE "Missing Data"

is_breach(label) == label # NaNCell /\ label # "Within Threshold"

\* the number of indices of a sequence that pass Test
Count(seq, Test(_)) == Cardinality({ i \in 1..Len(seq) : Test(seq[i]) })

RECURSIVE FSum(_)
FSum(seq) == IF seq = <<>> THEN FInt(0) ELSE FAdd(Head(seq), FSum(Tail(seq)))

\* Series.mean(): the sum of the values that are not null and their number
\* (the mean is sum / n, NaN when n = 0)
Mean(seq) ==
    LET kept == SelectSeq(seq, IsNum)
    IN  [sum |-> FSum(kept), n |-> Len(kept)]

\* the script from load_data() to the funnel chart; the latencies are kept in
\* seconds (the script divides them by 60)
dashboard(data) ==
    LET total_bookings == Len(data)
        timedelta(row) == IF IsInstanceStr(row.total_latency)
                          THEN to_timedelta(row.total_latency.v) ELSE NaN
        minutes(row) == parse_timedelta_safe(row.total_latency)
        rows == [i \in 1..Len(data) |->
                    [booking_code |-> data[i].booking_code,
                     total_latency |-> data[i].total_latency,
                     breach_percentage |-> data[i].breach_percentage,
                     total_latency_minutes |-> minutes(data[i]),
                     breach_category |-> categorize_breach(data[i].breach_percentage)]]
        within_threshold_count ==
            Count(rows, LAMBDA r : r.breach_category = "Within Threshold")
    IN  [data |-> rows,
         total_bookings |-> total_bookings,
         breach_count |-> Count(data, LAMBDA r : is_breach(r.breach_percentage)),
         avg_total_latency |-> Mean(MapSeq(data, timedelta)),
         avg_a_to_c |-> Mean(MapSeq(rows, LAMBDA r : r.total_latency_minutes)),
         within_threshold_count |-> within_threshold_count,
         exceed_threshold_count |-> total_bookings - within_threshold_count]

-----------------------------------------------------------------------------
(* The batch job and the dashboard that reads its report *)

Init ==
    /\ \E b \in Batches, has_sec \in BOOLEAN :
          /\ ab_has_sec = has_sec
          /\ df_ab = ReadAB(b, has_sec)
          /\ df_bc = ReadBC(b)
    /\ df_combined = <<>>
    /\ xlsx = <<>>
    /\ dash = <<>>
    /\ pc = "read"
    /\ lat_str = NoInput
    /\ ret = Pending
    /\ stdout = <<>>
    /\ RoundTripIdle
    /\ earlier = <<>>

\* final.py:138-144
Merge ==
    /\ pc = "read"
    /\ df_combined' = merge_inner(df_ab, df_bc)
    /\ pc' = "merged"
    /\ UNCHANGED <<round_trip, earlier, lat_str, ret, stdout, ab_has_sec, df_ab, df_bc, xlsx, dash>>

\* final.py:146-150
ParseBC ==
    /\ pc = "merged"
    /\ LET parsed == apply_column(
               MapSeq(df_combined, LAMBDA r : parse_latency_string(r.latency_b_to_c_str)))
       IN  df_combined' = [i \in 1..Len(df_combined) |->
                              [latency_b_to_c_sec |-> parsed[i]] @@ df_combined[i]]
    /\ stdout' = stdout \o FlatMap(df_combined, LAMBDA r : ParseDebug(r.latency_b_to_c_str))
    /\ pc' = "parsed"
    /\ UNCHANGED <<round_trip, earlier, lat_str, ret, ab_has_sec, df_ab, df_bc, xlsx, dash>>

\* final.py:152-157
Sum ==
    /\ pc = "parsed"
    /\ df_combined' = [i \in 1..Len(df_combined) |->
                          [total_latency_sec |-> total_latency_sec(ab_has_sec, df_combined[i])]
                          @@ df_combined[i]]
    /\ pc' = "summed"
    /\ UNCHANGED <<round_trip, earlier, lat_str, ret, stdout, ab_has_sec, df_ab, df_bc, xlsx, dash>>

\* final.py:159-182
Classify ==
    /\ pc = "summed"
    /\ df_combined' = classify(df_combined)
    /\ pc' = "classified"
    /\ UNCHANGED <<round_trip, earlier, lat_str, ret, stdout, ab_has_sec, df_ab, df_bc, xlsx, dash>>

\* final.py:184-185
Format ==
    /\ pc = "classified"
    /\ df_combined' = [i \in 1..Len(df_combined) |->
                          [total_latency |->
                              format_seconds_as_string(df_combined[i].total_latency_sec)]
                          @@ df_combined[i]]
    /\ pc' = "formatted"
    /\ UNCHANGED <<round_trip, earlier, lat_str, ret, stdout, ab_has_sec, df_ab, df_bc, xlsx, dash>>

\* final.py:187-217, the columns of the report that the dashboard's numbers use
Save ==
    /\ pc = "formatted"
    /\ xlsx' = [i \in 1..Len(df_combined) |->
                   [booking_code |-> df_combined[i].booking_code,
                    total_latency |-> df_combined[i].total_latency,
                    breach_percentage |-> df_combined[i].breach_percentage]]
    /\ pc' = "saved"
    /\ UNCHANGED <<round_trip, earlier, lat_str, ret, stdout, ab_has_sec, df_ab, df_bc, df_combined, dash>>

\* dashboard.py:102-277; with no row in the report the breach percentage
\* divides by zero (dashboard.py:120) and the script stops
Dashboard ==
    /\ pc = "saved"
    /\ LET data == [i \in 1..Len(xlsx) |->
                       [booking_code |-> xlsx[i].booking_code,
                        total_latency |-> load_cell(xlsx[i].total_latency),
                        breach_percentage |-> load_label(xlsx[i].breach_percentage)]]
       IN  IF Len(data) = 0
           THEN /\ pc' = "ZeroDivisionError"
                /\ dash' = dash
           ELSE /\ pc' = "dashboard"
                /\ dash' = dashboard(data)
    /\ UNCHANGED <<round_trip, earlier, lat_str, ret, stdout, ab_has_sec, df_ab, df_bc, df_combined, xlsx>>

Next == Merge \/ ParseBC \/ Sum \/ Classify \/ Format \/ Save \/ Dashboard

Spec == Init /\ [][Next]_vars

-----------------------------------------------------------------------------
(* main() run again on changed input files.  Every booking has an A->B row *)
(* of one second; its B->C row is missing (the booking is not joined) or   *)
(* makes a total of 1800, 3600 or 5400 seconds.  From one run to the next  *)
(* the rows of one booking change.                                         *)

RerunCases == {1, 4, 6, 7}

RerunBatches == [1..MaxRows -> RerunCases]

RowsFor(df, code) == SelectSeq(df, LAMBDA r : r.booking_code = code)

\* the B->C rows that a case puts into the file for a booking code
CaseRows(k, code) ==
    IF Catalogue[k].bc.present
    THEN <<[booking_code |-> code, latency_b_to_c_str |-> Catalogue[k].bc.cell]>>
    ELSE <<>>

\* the case that the rows of a booking code in the B->C file come from
CaseIn(df, code) == CHOOSE k \in RerunCases : RowsFor(df, code) = CaseRows(k, code)

InitRerun ==
    /\ \E b \in RerunBatches :
          /\ df_ab = ReadAB(b, TRUE)
          /\ df_bc = ReadBC(b)
    /\ ab_has_sec = TRUE
    /\ df_combined = <<>>
    /\ xlsx = <<>>
    /\ dash = <<>>
    /\ pc = "read"
    /\ lat_str = NoInput
    /\ ret = Pending
    /\ stdout = <<>>
    /\ RoundTripIdle
    /\ earlier = <<>>

\* the script is started again (final.py:111-136): the files are read anew,
\* final_latency.xlsx is still the report of the run before
Rerun ==
    /\ pc = "saved"
    /\ \E code \in 1..MaxRows, k \in RerunCases :
          LET was == [c \in 1..MaxRows |-> CaseIn(df_bc, c)]
              b == [was EXCEPT ![code] = k]
          IN  /\ was[code] # k
              /\ df_ab' = ReadAB(b, ab_has_sec)
              /\ df_bc' = ReadBC(b)
    /\ earlier' = df_combined
    /\ df_combined' = <<>>
    /\ dash' = <<>>
    /\ stdout' = <<>>
    /\ pc' = "read"
    /\ UNCHANGED <<round_trip, lat_str, ret, ab_has_sec, xlsx>>

NextRerun == Merge \/ ParseBC \/ Sum \/ Classify \/ Format \/ Save \/ Rerun

SpecRerun == InitRerun /\ [][NextRerun]_vars

-----------------------------------------------------------------------------
(* Claims about the parser (checked under SpecParse) *)

\* the number of seconds written into a generated input
Written(i) ==
    Num((i.Y * 365 + i.N * 30 + i.D) * 86400 + i.H * 3600 + i.M * 60 + i.S, i.F)

\* C4: for a string in clock form H:MM:SS(.f) the parser returns
\* H*3600 + M*60 + S, and for a string in day-clock form D day(s), H:MM:SS(.f)
\* it returns D*86400 + H*3600 + M*60 + S, the fraction of the seconds kept.
C4_ClockForms ==
    (pc = "returned" /\ lat_str.shape \in {"clock", "dayclock"})
        => ret = Num(lat_str.D * 86400 + lat_str.H * 3600 + lat_str.M * 60 + lat_str.S,
                     lat_str.F)

\* "1 day, 2:19:01.113712" has been parsed to 94741.113712
C4_Witness ==
    /\ pc = "returned"
    /\ lat_str.cell = PyStr(DayClockText(1, FALSE, 2, 19, 1, F113712))
    /\ ret = Flt(94741, 113712)

\* C5: for a string in verbose form, with or without the "Y years N mons"
\* prefix, the parser that computes the total latency returns
\* (Y*365 + N*30 + D)*86400 + H*3600 + M*60 + S.
C5_VerboseForms ==
    (pc = "returned" /\ lat_str.shape \in {"verbose", "prefixed"})
        => ret = Written(lat_str)

-----------------------------------------------------------------------------
(* Claims about the batch job and the dashboard (checked under Spec) *)

AfterMerge ==
    pc \in {"merged", "parsed", "summed", "classified", "formatted", "saved",
            "dashboard", "ZeroDivisionError"}
AfterSum ==
    pc \in {"summed", "classified", "formatted", "saved", "dashboard", "ZeroDivisionError"}
AfterClassify ==
    pc \in {"classified", "formatted", "saved", "dashboard", "ZeroDivisionError"}
AfterSave == pc \in {"saved", "dashboard", "ZeroDivisionError"}

Rows == 1..Len(df_combined)
Total(i) == df_combined[i].total_latency_sec

\* total_seconds of row i is a number above the threshold / at most the threshold
Above(i) ==
    /\ IsNum(Total(i))
    /\ (Total(i).w > threshold_sec \/ (Total(i).w = threshold_sec /\ Total(i).u > 0))
AtMost(i) == IsNum(Total(i)) /\ ~Above(i)

Exceeding == { i \in Rows : Above(i) }

\* C1: after classification every record whose total_seconds is at most the
\* threshold carries the label "Within Threshold", and no record above the
\* threshold carries it.
C1_WithinThreshold ==
    AfterClassify =>
        \A i \in Rows :
            /\ AtMost(i) => /\ df_combined[i].breach_category = "Within Threshold"
                            /\ df_combined[i].breach_percentage = "Within Threshold"
            /\ Above(i) => /\ df_combined[i].breach_category # "Within Threshold"
                           /\ df_combined[i].breach_percentage # "Within Threshold"

\* a record of exactly 1800 s is within, next to one of 1801 s that is not
C1_Witness ==
    /\ pc = "classified"
    /\ \E i, j \in Rows :
          /\ Total(i) = FInt(threshold_sec)
          /\ df_combined[i].breach_category = "Within Threshold"
          /\ Total(j) = FInt(threshold_sec + 1)
          /\ df_combined[j].breach_category \in { labels[l] : l \in 1..Len(labels) }

\* numbers of exceeding records below, equal to and at most the total of row i
Below(i) == Cardinality({ j \in Exceeding : FLt(Total(j), Total(i)) })
Equal(i) == Cardinality({ j \in Exceeding : Total(j) = Total(i) })

RankOf(i) == df_combined[i].breach_rank

\* the rank of row i is the fraction a / b
RankIs(i, a, b) == RankOf(i).den > 0 /\ RankOf(i).num * b = a * RankOf(i).den

\* C2 as stated: the rank of an exceeding record is the fraction of the
\* exceeding subset whose total_seconds is at most the record's, equal totals
\* have equal ranks, and the rank is taken over the exceeding subset only.
C2_RankIsFractionAtMost ==
    AfterClassify =>
        \A i \in Exceeding :
            /\ RankIs(i, Below(i) + Equal(i), Cardinality(Exceeding))
            /\ \A j \in Exceeding :
                  Total(j) = Total(i) => RankIs(j, RankOf(i).num, RankOf(i).den)

\* C2 amended: the rank of an exceeding record is the average of the positions
\* that the records with its total_seconds take in the exceeding subset, that
\* is (below + (equal + 1) / 2) / n; equal totals have equal ranks, and the
\* rank is taken over the exceeding subset only.
C2_RankIsAverageOfTies ==
    AfterClassify =>
        /\ \A i \in Exceeding :
              /\ RankIs(i, 2 * Below(i) + Equal(i) + 1, 2 * Cardinality(Exceeding))
              /\ Equal(i) = 1 => RankIs(i, Below(i) + 1, Cardinality(Exceeding))
              /\ \A j \in Exceeding :
                    Total(j) = Total(i) => RankIs(j, RankOf(i).num, RankOf(i).den)
        /\ \A i \in Rows \ Exceeding : RankOf(i) = NoRank

\* two exceeding records share a total, next to a record within the threshold
C2_Witness ==
    /\ pc = "classified"
    /\ \E i, j, k \in Rows :
          /\ i # j /\ Above(i) /\ Total(i) = Total(j)
          /\ RankIs(i, 3, 4)
          /\ AtMost(k)

\* the bins as the claim writes them, in tenths: label l is for (Lower, Upper]
BinLower == <<0, 5, 6, 7, 8, 9>>
BinUpper == <<5, 6, 7, 8, 9, 10>>

InBin(i, l) ==
    /\ BinLower[l] * RankOf(i).den < 10 * RankOf(i).num
    /\ 10 * RankOf(i).num <= BinUpper[l] * RankOf(i).den

ExampleTotals == <<1801, 3600, 5400, 7200>>
ExampleRanks == <<1, 2, 3, 4>>      \* quarters
ExampleLabels == <<1, 1, 4, 6>>

IsExample == { Total(i) : i \in Exceeding } = { FInt(ExampleTotals[e]) : e \in 1..4 }
                /\ Cardinality(Exceeding) = 4

\* C3: the rank of an exceeding record is mapped to exactly one label, that of
\* the half-open bin (lower, upper] it lies in; the exceeding totals
\* 1801, 3600, 5400, 7200 get the ranks 0.25, 0.5, 0.75, 1.0 and the labels
\* <=50th, <=50th, 70-80th, 90-100th percentile.
C3_Bins ==
    AfterClassify =>
        /\ \A i \in Exceeding :
              \A l \in 1..Len(labels) :
                  df_combined[i].breach_category = labels[l] <=> InBin(i, l)
        /\ IsExample =>
              \A i \in Exceeding : \A e \in 1..4 :
                  Total(i) = FInt(ExampleTotals[e]) =>
                      /\ RankIs(i, ExampleRanks[e], 4)
                      /\ df_combined[i].breach_category = labels[ExampleLabels[e]]

\* the example batch has been classified
C3_Witness ==
    /\ pc = "classified"
    /\ IsExample
    /\ \E i \in Exceeding :
          /\ Total(i) = FInt(3600)
          /\ RankIs(i, 1, 2)
          /\ df_combined[i].breach_category = "<=50th percentile"

\* the parser's result for a duration text, null when it failed
Leg(cell) == parse_latency_string(cell)

\* C7 as stated: total_seconds is the parser's result for the A->B text plus
\* the parser's result for the B->C text, and is unparseable when either leg
\* failed to parse.
C7_TotalIsSumOfParsedLegs ==
    AfterSum =>
        \A i \in Rows :
            LET ab == Leg(df_combined[i].latency_a_to_b_str)
                bc == Leg(df_combined[i].latency_b_to_c_str)
            IN  IF IsNum(ab) /\ IsNum(bc)
                THEN Total(i) = FAdd(ab, bc)
                ELSE IsNull(Total(i))

\* C7 amended: total_seconds is the A->B row's number latency_in_seconds plus
\* the parser's result for the B->C text; it is unparseable when that number
\* is missing (or the file has no such column) or the B->C text failed to
\* parse.  The A->B text is not parsed.
C7_TotalIsSecondsPlusParsedBC ==
    AfterSum =>
        \A i \in Rows :
            LET ab == df_combined[i].latency_a_to_b_sec
                bc == Leg(df_combined[i].latency_b_to_c_str)
            IN  IF ab_has_sec /\ IsNum(ab) /\ IsNum(bc)
                THEN Total(i) = FAdd(ab, bc)
                ELSE IsNull(Total(i))

\* 364.304215 s and "1 day, 2:19:01.113712" have been summed to 95105.417927 s
C7_Witness ==
    /\ pc = "summed"
    /\ \E i \in Rows :
          /\ df_combined[i].latency_a_to_b_sec = Flt(364, 304215)
          /\ df_combined[i].latency_b_to_c_str
                = PyStr(DayClockText(1, FALSE, 2, 19, 1, F113712))
          /\ df_combined[i].latency_b_to_c_sec = Flt(94741, 113712)
          /\ Total(i) = Flt(95105, 417927)
    /\ \E j \in Rows : IsNull(Total(j))

Codes(df) == { df[i].booking_code : i \in 1..Len(df) }
UniqueCodes(df) == \A i, j \in 1..Len(df) : df[i].booking_code = df[j].booking_code => i = j
RowsOf(df, code) == Cardinality({ i \in 1..Len(df) : df[i].booking_code = code })

\* C8: when booking_code is unique within each input set, the report has
\* exactly one row for each booking_code present in both sets and no row for
\* a booking_code present in one set only.
C8_InnerJoin ==
    (UniqueCodes(df_ab) /\ UniqueCodes(df_bc)) =>
        \A code \in Codes(df_ab) \cup Codes(df_bc) \cup Codes(df_combined) \cup Codes(xlsx) :
            LET n == IF code \in Codes(df_ab) \cap Codes(df_bc) THEN 1 ELSE 0
            IN  /\ AfterMerge => RowsOf(df_combined, code) = n
                /\ AfterSave => RowsOf(xlsx, code) = n

\* a report was written from sets with a booking only in A->B, a booking only
\* in B->C and bookings in both
C8_Witness ==
    /\ pc = "saved"
    /\ UniqueCodes(df_ab) /\ UniqueCodes(df_bc)
    /\ Codes(df_ab) \ Codes(df_bc) # {}
    /\ Codes(df_bc) \ Codes(df_ab) # {}
    /\ Cardinality(Codes(xlsx)) = 2

\* C9: a joined record whose total_seconds is unparseable stays in the report
\* with an empty total_latency, gets neither "Within Threshold" nor a
\* percentile label nor a rank, is shown by the dashboard as "Missing Data",
\* and is counted neither as within nor as exceeding.
C9_MissingDataExcluded ==
    pc = "dashboard" =>
        /\ \A i \in Rows :
              IsNull(Total(i)) =>
                  /\ xlsx[i].booking_code = df_combined[i].booking_code
                  /\ xlsx[i].total_latency = <<>>
                  /\ xlsx[i].breach_percentage = PyNone
                  /\ RankOf(i) = NoRank
                  /\ dash.data[i].breach_category = "Missing Data"
        /\ dash.within_threshold_count = Cardinality({ i \in Rows : AtMost(i) })
        /\ dash.exceed_threshold_count = Cardinality(Exceeding)

\* C10: a duration that failed to parse, or a missing rendered duration,
\* enters no statistic as the number zero: it contributes no value to the
\* counts and means over latencies.
C10_NeverZeroed ==
    pc = "dashboard" =>
        /\ \A i \in Rows :
              IsNull(Total(i)) => ~IsNum(dash.data[i].total_latency_minutes)
        /\ dash.avg_a_to_c.n = Cardinality({ i \in Rows : IsNum(Total(i)) })
        /\ dash.avg_total_latency.n = Cardinality({ i \in Rows : IsNum(Total(i)) })

-----------------------------------------------------------------------------
(* Claims about the formatter (checked under SpecFormat) *)

W_days_sep == <<" ">> \o W_day \o <<"s", " ">>

\* the fields read off a text of the form "d days hh:mm:ss": their values and
\* the number of digits of hh, mm and ss
Fields(txt) ==
    LET d == ReDigits(txt, 1)
        h0 == ReLit(txt, d, W_days_sep)
        h == ReDigits(txt, h0)
        m0 == ReLit(txt, h, <<":">>)
        m == ReDigits(txt, m0)
        s0 == ReLit(txt, m, <<":">>)
        e == ReDigits(txt, s0)
    IN  IF e > 0 /\ e = Len(txt) + 1
        THEN [ok |-> TRUE,
              d |-> DigitsValue(Group(txt, 1, d)),
              hh |-> DigitsValue(Group(txt, h0, h)),
              mm |-> DigitsValue(Group(txt, m0, m)),
              ss |-> DigitsValue(Group(txt, s0, e)),
              digits |-> <<h - h0, m - m0, e - s0>>]
        ELSE [ok |-> FALSE, d |-> 0, hh |-> 0, mm |-> 0, ss |-> 0, digits |-> <<0, 0, 0>>]

\* n is a whole number nearest to x (on an exact half, the even neighbour)
NearestWhole(n, x) ==
    \/ n = x.w /\ 2 * x.u < Scale
    \/ n = x.w + 1 /\ 2 * x.u > Scale
    \/ n \in {x.w, x.w + 1} /\ 2 * x.u = Scale /\ n % 2 = 0

\* C11: for a number of seconds x >= 0, format_seconds_as_string(x) reads
\* "d days hh:mm:ss" with hh, mm and ss of two digits, hh < 24, mm < 60,
\* ss < 60 and d*86400 + hh*3600 + mm*60 + ss the whole number nearest to x;
\* for a missing value (None, NaN) it is the empty string.
C11_Rendering ==
    pc = "rendered" =>
        IF IsNull(seconds_in) THEN rendered = PyStr(<<>>)
        ELSE LET f == Fields(rendered.v)
             IN  /\ f.ok
                 /\ f.digits = <<2, 2, 2>>
                 /\ f.hh < 24 /\ f.mm < 60 /\ f.ss < 60
                 /\ NearestWhole(f.d * 86400 + f.hh * 3600 + f.mm * 60 + f.ss, seconds_in)

\* 86399.500001 s has been rendered as "1 days 00:00:00"
C11_Witness ==
    /\ pc = "rendered"
    /\ seconds_in = Flt(86399, 500001)
    /\ rendered = PyStr(<<"1">> \o W_days_sep \o <<"0", "0", ":", "0", "0", ":", "0", "0">>)

-----------------------------------------------------------------------------
(* Claims about the round trip (checked under SpecParse) *)

WellFormed == lat_str.shape \in {"clock", "dayclock", "verbose"}

\* C12: for a well-formed duration string s, the string that
\* format_seconds_as_string makes of parse_latency_string(s) is itself
\* accepted by parse_latency_string, and rendering that result gives the
\* same string again: render(parse(render(parse(s)))) = render(parse(s)).
C12_RoundTripStable ==
    (pc = "rendered again" /\ WellFormed) =>
        /\ IsNum(ret_again)
        /\ rendered_again = rendered

-----------------------------------------------------------------------------
(* Claims about repeated runs (checked under SpecRerun) *)

AboveRow(r) ==
    /\ IsNum(r.total_latency_sec)
    /\ (r.total_latency_sec.w > threshold_sec
        \/ (r.total_latency_sec.w = threshold_sec /\ r.total_latency_sec.u > 0))
AtMostRow(r) == IsNum(r.total_latency_sec) /\ ~AboveRow(r)

\* the totals above the threshold of a frame, in ascending order
ExceedingTotals(df) ==
    LET above == SelectSeq(df, AboveRow)
    IN  Sort([q \in 1..Len(above) |-> above[q].total_latency_sec])

\* row i of this run and row j of the run before are the same booking with
\* the same total_seconds
SameBooking(i, j) ==
    /\ df_combined[i].booking_code = earlier[j].booking_code
    /\ df_combined[i].total_latency_sec = earlier[j].total_latency_sec

\* C13: the label of a booking above the threshold depends on the batch: the
\* same booking with the same total_seconds can carry different percentile
\* labels in two runs (the witness), and it does so only when the totals
\* above the threshold of the two batches differ; a booking at or below the
\* threshold carries "Within Threshold" in every run, whatever the other
\* records are.
C13_BatchRelative ==
    AfterClassify =>
        /\ \A i \in Rows :
              AtMost(i) => df_combined[i].breach_percentage = "Within Threshold"
        /\ \A j \in 1..Len(earlier) :
              AtMostRow(earlier[j]) => earlier[j].breach_percentage = "Within Threshold"
        /\ \A i \in Rows, j \in 1..Len(earlier) :
              (/\ SameBooking(i, j)
               /\ Above(i)
               /\ df_combined[i].breach_percentage # earlier[j].breach_percentage)
                  => ExceedingTotals(df_combined) # ExceedingTotals(earlier)

\* a booking of 3600 s was the only one above the threshold in the run before
\* ("90-100th percentile") and is below one of 5400 s in this run ("<=50th
\* percentile"), next to a booking of 1800 s that is within in both runs
C13_Witness ==
    /\ pc = "classified"
    /\ \E i \in Rows, j \in 1..Len(earlier) :
          /\ SameBooking(i, j)
          /\ Total(i) = FInt(3600)
          /\ earlier[j].breach_percentage = "90-100th percentile"
          /\ df_combined[i].breach_percentage = "<=50th percentile"
    /\ \E i \in Rows, j \in 1..Len(earlier) :
          /\ SameBooking(i, j)
          /\ Total(i) = FInt(threshold_sec)
          /\ earlier[j].breach_percentage = "Within Threshold"
          /\ df_combined[i].breach_percentage = "Within Threshold"

-----------------------------------------------------------------------------
(* Further claims about the classification (checked under Spec) *)

PercentileLabels == { labels[l] : l \in 1..Len(labels) }

\* C14: when no joined record has total_seconds above the threshold, the
\* classification step completes, no record is given a rank, and no record
\* of the frame or of the report carries one of the six percentile labels.
C14_EmptyExceedingSubset ==
    /\ [][(pc = "summed" /\ Exceeding = {}) => pc' = "classified"]_vars
    /\ [](AfterClassify /\ Exceeding = {} =>
              /\ \A i \in Rows :
                    /\ df_combined[i].breach_rank = NoRank
                    /\ df_combined[i].breach_category \notin PercentileLabels
                    /\ df_combined[i].breach_percentage \notin PercentileLabels
              /\ AfterSave =>
                    \A i \in 1..Len(xlsx) : xlsx[i].breach_percentage \notin PercentileLabels)

\* a report was written from a batch with a record of 1800 s, a record
\* without a total and none above the threshold
C14_Witness ==
    /\ pc = "saved"
    /\ Exceeding = {}
    /\ \E i \in Rows : Total(i) = FInt(threshold_sec)
    /\ \E i \in Rows : Total(i) = NaN
    /\ Len(xlsx) = Len(df_combined)
    /\ \A i \in 1..Len(xlsx) : xlsx[i].breach_percentage \in {"Within Threshold", PyNone}

\* the place of a percentile label in the order "<=50th" < "50-60th" < ... < "90-100th"
LabelIndex(l) == CHOOSE k \in 1..Len(labels) : labels[k] = l

\* C15: within one batch every record above the threshold carries one of the
\* six percentile labels, and of two such records the one with the smaller
\* or equal total_seconds does not carry the higher label.
C15_OrderPreserving ==
    AfterClassify =>
        /\ \A a \in Exceeding :
              /\ df_combined[a].breach_category \in PercentileLabels
              /\ df_combined[a].breach_percentage = df_combined[a].breach_category
        /\ \A a, b \in Exceeding :
              FLe(Total(a), Total(b)) =>
                  LabelIndex(df_combined[a].breach_category)
                      <= LabelIndex(df_combined[b].breach_category)

\* two records of 1801 s share "<=50th percentile" below one of 3600 s that
\* is "90-100th percentile"
C15_Witness ==
    /\ pc = "classified"
    /\ Cardinality(Exceeding) = 3
    /\ \E a, b, c \in Exceeding :
          /\ a # b
          /\ Total(a) = FInt(1801) /\ Total(b) = FInt(1801) /\ Total(c) = FInt(3600)
          /\ df_combined[a].breach_category = "<=50th percentile"
          /\ df_combined[b].breach_category = "<=50th percentile"
          /\ df_combined[c].breach_category = "90-100th percentile"

====
